---- MODULE Spec2Model ----
(***************************************************************************)
(* A model of libmemc.c, the memcached client of memcachetest: the handle  *)
(* with its server list, key routing, the connection state of each server, *)
(* the blocking receive loops, and the textual and binary codecs.          *)
(*                                                                         *)
(* A byte of text is a one-character string ("V", " ", "\r"); NUL is the   *)
(* string "NUL".  A binary header field is a number.  A pointer into a     *)
(* buffer is a 1-based index into the memory image of that buffer.         *)
(* The client is single threaded: pc is the position of the one running    *)
(* call, and a call is split where it blocks in recv().                    *)
(***************************************************************************)
EXTENDS Integers, Sequences, FiniteSets, TLC

\* ---------------------------------------------------------------- bounds
\* The scratch buffer of a Server, scaled down from 65 * 1024 bytes.
BufferSize == 24
\* How many servers add_server may register.
MaxServers == 2
\* How many store and fetch calls one run makes.
MaxCalls == 2
\* How many buffers a gathered write is handed.
MaxIov == 3

\* --------------------------------------------------------------- C bytes
NUL == "NUL"
CR == "\r"
LF == "\n"
SP == " "
\* What memcpy reads past the end of the memory image: an indeterminate byte.
OOB == "OOB"

DigitChars == <<"0", "1", "2", "3", "4", "5", "6", "7", "8", "9">>
IsDigit(c) == \E i \in 1..10 : DigitChars[i] = c
DigitVal(c) == (CHOOSE i \in 1..10 : DigitChars[i] = c) - 1
\* isspace(), for the bytes of the model
IsSpace(c) == c \in {SP, LF, CR, "\t"}

Min(S) == CHOOSE x \in S : \A y \in S : x <= y
Max(S) == CHOOSE x \in S : \A y \in S : x >= y

\* The n bytes at m[from], and OOB where that runs off the image.
Bytes(m, from, n) ==
    [i \in 1..n |-> IF from + i - 1 \in 1..Len(m) THEN m[from + i - 1] ELSE OOB]

\* m with the bytes bs stored at index at (a write past the end extends m).
Store(m, at, bs) ==
    [i \in 1..Max({Len(m), at + Len(bs) - 1}) |->
        IF i >= at /\ i < at + Len(bs) THEN bs[i - at + 1]
        ELSE IF i <= Len(m) THEN m[i] ELSE OOB]

Fill(n, c) == [i \in 1..n |-> c]

\* strchr(m + from, c): the index of the first c before the first NUL, 0 if none.
StrChr(m, from, c) ==
    LET hits == {i \in from..Len(m) : m[i] = c \/ m[i] = NUL}
    IN  IF hits = {} THEN 0
        ELSE IF m[Min(hits)] = c THEN Min(hits) ELSE 0

\* strstr(m + from, pat) == m + from: the text at from begins with pat.
StartsWith(m, from, pat) ==
    \A j \in 1..Len(pat) : from + j - 1 <= Len(m) /\ m[from + j - 1] = pat[j]

\* strtoul(m + start, &end, 10): skips white space, then reads digits; with no
\* digit, end is start.  (The model has no sign and no value past ULONG_MAX.)
RECURSIVE SkipSpace(_, _)
SkipSpace(m, i) == IF i <= Len(m) /\ IsSpace(m[i]) THEN SkipSpace(m, i + 1) ELSE i

RECURSIVE ReadDigits(_, _, _)
ReadDigits(m, i, acc) ==
    IF i <= Len(m) /\ IsDigit(m[i])
    THEN ReadDigits(m, i + 1, acc * 10 + DigitVal(m[i]))
    ELSE [val |-> acc, end |-> i]

strtoul(m, start) ==
    LET d == SkipSpace(m, start)
        r == ReadDigits(m, d, 0)
    IN  IF r.end = d THEN [val |-> 0, end |-> start] ELSE r

\* -------------------------------------------------------------- routing
\* The character code of a key byte (keys of the model are ASCII).
Ord(c) ==
    CASE c = "a" -> 97 [] c = "b" -> 98 [] c = "c" -> 99 [] c = "k" -> 107
      [] c = "z" -> 122 [] OTHER -> 0

\* A uint32_t as its two 16-bit halves; (ret << 4) + c wraps at 2^32.
Shl4Add(h, c) ==
    LET lo == h.lo * 16 + c
        hi == h.hi * 16 + (lo \div 65536)
    IN  [hi |-> hi % 65536, lo |-> lo % 65536]

RECURSIVE HashFrom(_, _, _)
HashFrom(key, i, h) ==
    IF i > Len(key) THEN h ELSE HashFrom(key, i + 1, Shl4Add(h, Ord(key[i])))

\* for (ret = *key; *key != 0; ++key) ret = (ret << 4) + *key;
simplehash(key) ==
    IF Len(key) = 0 THEN [hi |-> 0, lo |-> 0]
    ELSE HashFrom(key, 1, [hi |-> 0, lo |-> Ord(key[1])])

\* h % n for a uint32_t h
HashMod(h, n) == (((h.hi % n) * (65536 % n)) + h.lo) % n

\* struct Memcache, as get_server sees it.
Handle(srvs, proto) == [servers |-> srvs, protocol |-> proto, no_servers |-> Len(srvs)]

\* A router that passes over a disconnected server when another one is
\* connected: what get_server must not be.
get_server_connected(handle, key) ==
    LET n == handle.no_servers
        h == IF n = 0 THEN -1 ELSE HashMod(simplehash(key), n)
        up == {i \in 1..n : handle.servers[i].sock = "open"}
    IN  IF n = 0 THEN -1
        ELSE IF handle.servers[h + 1].sock = "closed" /\ up # {} THEN Min(up) - 1
        ELSE h

\* The index (from 0) of the server of key in handle->servers, -1 for NULL.
get_server(handle, key) ==
    IF handle.no_servers = 1 THEN 0
    ELSE IF handle.no_servers > 0 THEN HashMod(simplehash(key), handle.no_servers)
    ELSE -1

\* ---------------------------------------------------------------- state
VARIABLES
    protocol,   \* handle->protocol: "Textual" or "Binary"
    servers,    \* handle->servers[0 .. no_servers-1], a sequence of struct Server
    net,        \* per server: the bytes the peer has sent that recv() has not
                \* returned yet, and whether the peer has closed the stream
    item,       \* the struct Item of the running (or last) call
    pc,         \* where the running call stands; "idle" between calls
    frame,      \* the locals of the running call
    ret,        \* what the last call returned
    call        \* a record of the running (or last) call, for the properties

vars == <<protocol, servers, net, item, pc, frame, ret, call>>

FreshNet == [bytes |-> <<>>, eof |-> FALSE, least |-> 1]
NoFrame == [srv |-> 0, offset |-> 0, base |-> 0, size |-> 0]
NoReply == [kind |-> "none", bytes |-> <<>>, least |-> 1]
NoRoute == [key |-> <<>>, n |-> 0, idx |-> -1]
NoCall ==
    [op |-> "none", route |-> NoRoute, prev |-> NoRoute, sock0 |-> "none",
     connects |-> 0, io |-> FALSE, fault |-> "none", reply |-> NoReply,
     stream |-> <<>>, item0 |-> <<>>, freed |-> FALSE, malloced |-> FALSE,
     created |-> FALSE, count |-> 0, wild |-> FALSE, how |-> "none",
     sized |-> FALSE, elemsize |-> 0, nomem |-> FALSE]

\* The memory a string function walks when it is handed server->buffer: the
\* buffer and the heap bytes after it.
Mem(sv) == sv.buffer \o sv.after
\* sv after bytes bs were stored at server->buffer + off (off counts from 0).
Poke(sv, off, bs) ==
    LET m == Store(Mem(sv), off + 1, bs)
    IN  [sv EXCEPT !.buffer = SubSeq(m, 1, BufferSize),
                   !.after = SubSeq(m, BufferSize + 1, Len(m))]

\* ----------------------------------------------------------- connection
server_disconnect(sv) == [sv EXCEPT !.sock = "closed"]

\* A connect that keeps the socket of a refused connection: what
\* server_connect must not be.
server_connect_leaky(sv, how) ==
    CASE how = "ok" -> [sv EXCEPT !.sock = "open"]
      [] how = "nosocket" ->
            [sv EXCEPT !.sock = "closed", !.errmsg = "Failed to create socket"]
      [] OTHER -> [sv EXCEPT !.sock = "open", !.errmsg = "Failed to connect socket"]

\* server_connect: how is what socket() and connect() did.
server_connect(sv, how) ==
    CASE how = "ok" -> [sv EXCEPT !.sock = "open"]
      [] how = "nosocket" ->
            [sv EXCEPT !.sock = "closed", !.errmsg = "Failed to create socket"]
      [] OTHER ->
            server_disconnect([sv EXCEPT !.sock = "open",
                                         !.errmsg = "Failed to connect socket"])
ConnectHow == {"ok", "nosocket", "refused"}

\* server_create, when lookuphost found the address and both allocations
\* succeeded.  addr is the address calloc returned; malloc does not initialise
\* the buffer: image is what it holds.
server_create(addr, name, image, after, how) ==
    server_connect([addr |-> addr, peername |-> name, sock |-> "closed",
                    errmsg |-> "none", buffer |-> image, after |-> after], how)

\* calloc() returns an address no live Server has.
FreshAddr(list) == Max({0} \cup {list[i].addr : i \in 1..Len(list)}) + 1

\* A list that takes the new Server in front: what AddTo must not be.
AddTo_front(list, made) == IF made = <<>> THEN list ELSE <<made[1]>> \o list

\* What malloc hands out for server->buffer, and what lies after it: fresh
\* pages, or memory used before (no NUL in it; a '\r' may follow it).
Heap(image, after) == [image |-> image, after |-> after]
Fresh == Heap(Fill(BufferSize, NUL), <<NUL>>)
Recycled == Heap(Fill(BufferSize, "G"), <<NUL>>)
RecycledCR == Heap(Fill(BufferSize, "G"), <<CR, NUL>>)

\* libmemc_add_server: the list with one more slot, filled when server_create
\* returned a Server.  made is that Server, or <<>> for NULL.
AddTo(list, made) == IF made = <<>> THEN list ELSE Append(list, made[1])

libmemc_add_server(limit, Hosts, Heaps) ==
    /\ pc = "idle"
    /\ Len(servers) < limit
    /\ \E res \in {"ok", "nolist", "noaddr", "noserver", "nobuffer"} :
        \E name \in Hosts, heap \in (IF res = "ok" THEN Heaps ELSE {Fresh}),
           how \in (IF res = "ok" THEN ConnectHow ELSE {"ok"}) :
          LET made == IF res = "ok"
                      THEN <<server_create(FreshAddr(servers), name, heap.image,
                                           heap.after, how)>>
                      ELSE <<>>
          IN  /\ servers' = (IF res = "nolist" THEN servers ELSE AddTo(servers, made))
              /\ net' = (IF made = <<>> THEN net ELSE Append(net, FreshNet))
              /\ ret' = (IF res = "nolist" THEN -1 ELSE 0)
              /\ call' = [NoCall EXCEPT !.op = "add", !.prev = call.prev, !.count = call.count,
                                        !.created = (made # <<>>),
                                        !.connects = IF res \in {"ok", "nobuffer"}
                                                     THEN 1 ELSE 0]
    /\ UNCHANGED <<protocol, item, pc, frame>>

\* ------------------------------------------------------------ transport
\* What recv(sock, buf, len, 0) can do on server sv whose unread bytes are w:
\* fail, return the next n >= 1 bytes (a short read when n < len), or return 0
\* once the peer has closed and nothing is left.  The bytes arrive in pieces
\* of w.least bytes or more (1: any split).  EINTR is the action Interrupted.
RecvOutcomes(sv, w, len) ==
    IF sv.sock = "closed" THEN {[k |-> "err", n |-> 0]}
    ELSE IF w.eof /\ w.bytes = <<>> THEN {[k |-> "eof", n |-> 0]}
    ELSE {[k |-> "err", n |-> 0]}
         \cup {[k |-> "data", n |-> i] :
                 i \in Min({w.least, len, Len(w.bytes)})..Min({len, Len(w.bytes)}) \ {0}}
         \cup (IF len = 0 THEN {[k |-> "data", n |-> 0]} ELSE {})
         \cup (IF w.bytes = <<>> /\ len > 0 THEN {[k |-> "eof", n |-> 0]} ELSE {})

\* The stream after recv returned out.
Consumed(w, out) ==
    [w EXCEPT !.bytes = SubSeq(w.bytes, out.n + 1, Len(w.bytes)),
              !.eof = w.eof \/ out.k = "eof"]

\* A receive that stores every read at the start of the destination: what
\* server_receive must not be.
server_receive_restart(m, base, offset, size, line, out, w) ==
    IF out.k = "err"
    THEN [status |-> "fail", m |-> m, offset |-> offset, rv |-> -1]
    ELSE LET m2 == Store(m, base + 1, SubSeq(w.bytes, 1, out.n))
             stop == line /\ StrChr(m2, base + 1, CR) # 0
             off2 == offset + out.n
         IN  IF off2 < size /\ ~stop
             THEN [status |-> "again", m |-> m2, offset |-> off2, rv |-> 0]
             ELSE IF line /\ ~stop
             THEN [status |-> "proto", m |-> m2, offset |-> off2, rv |-> -1]
             ELSE [status |-> "done", m |-> m2, offset |-> off2, rv |-> off2]

\* One turn of the loop of server_receive(server, m + base, size, line), m the
\* memory that holds the destination: recv returned out.  status is "again"
\* (the loop goes round), "done" (returns rv = offset), "fail" (recv failed:
\* message, disconnect, return -1) or "proto" (a line without '\r').
server_receive(m, base, offset, size, line, out, w) ==
    IF out.k = "err"
    THEN [status |-> "fail", m |-> m, offset |-> offset, rv |-> -1]
    ELSE LET m2 == Store(m, base + offset + 1, SubSeq(w.bytes, 1, out.n))
             stop == line /\ StrChr(m2, base + offset + 1, CR) # 0
             off2 == offset + out.n
         IN  IF off2 < size /\ ~stop
             THEN [status |-> "again", m |-> m2, offset |-> off2, rv |-> 0]
             ELSE IF line /\ ~stop
             THEN [status |-> "proto", m |-> m2, offset |-> off2, rv |-> -1]
             ELSE [status |-> "done", m |-> m2, offset |-> off2, rv |-> off2]

\* The server after server_receive left with status st.
Received(sv, st) ==
    CASE st = "fail" ->
            server_disconnect([sv EXCEPT !.errmsg = "Failed to receive data from server"])
      [] st = "proto" -> server_disconnect([sv EXCEPT !.errmsg = "Protocol error"])
      [] OTHER -> sv

\* server_sendv, by its result: everything was written, or writev failed
\* (message, disconnect, return -1).
server_sendv(sv, ok) ==
    IF ok THEN sv
    ELSE server_disconnect([sv EXCEPT !.errmsg = "Failed to send data to server"])

\* The peer answers a request that reached it with reply.
Answered(w, ok, reply) ==
    IF ok /\ ~w.eof THEN [w EXCEPT !.bytes = @ \o reply.bytes, !.least = reply.least] ELSE w

\* ------------------------------------------------------------ the steps
\* A closed socket has no stream.
CloseNet(svs, nt) ==
    [i \in 1..Len(nt) |-> IF svs[i].sock = "closed" THEN FreshNet ELSE nt[i]]

Set(p, f, r, svs, nt, it, cl) ==
    /\ pc' = p
    /\ frame' = f
    /\ ret' = r
    /\ servers' = svs
    /\ net' = CloseNet(svs, nt)
    /\ item' = it
    /\ call' = cl
    /\ UNCHANGED protocol

Return(rv, svs, nt, it, cl) == Set("idle", NoFrame, rv, svs, nt, it, cl)
\* abort(), or an assert that failed: the process is gone.
Abort(svs, nt, it, cl) == Set("aborted", NoFrame, ret, svs, nt, it, cl)

Fault(cl, out) ==
    IF out.k \in {"err", "eof"} /\ cl.fault = "none"
    THEN [cl EXCEPT !.fault = out.k, !.io = TRUE] ELSE [cl EXCEPT !.io = TRUE]

\* ------------------------------------------------------- textual codec
T_VALUE == <<"V", "A", "L", "U", "E", " ">>
T_END == <<"E", "N", "D">>
T_CRLF == <<CR, LF>>
T_STORED == <<"S", "T", "O", "R", "E", "D", CR, LF>>
T_NOT_STORED == <<"N", "O", "T", "_", "S", "T", "O", "R", "E", "D", CR, LF>>

\* The decimal digits sprintf("%ld") writes for n >= 0.
RECURSIVE Dec(_)
Dec(n) == IF n < 10 THEN <<DigitChars[n + 1]>> ELSE Dec(n \div 10) \o <<DigitChars[(n % 10) + 1]>>

\* parse_value_line(m + header, &flag, &size, &data); data is an index into m.
parse_value_line(m, header) ==
    LET bad == [rc |-> -1, flag |-> 0, size |-> 0, data |-> 0]
        sp == StrChr(m, header, SP)
        f == strtoul(m, sp + 1)
        z == strtoul(m, f.end + 1)
    IN  IF sp = 0 THEN bad
        ELSE IF f.end = sp + 1 THEN bad
        ELSE IF z.end = f.end + 1 THEN bad
        ELSE IF ~StartsWith(m, z.end, T_CRLF) THEN bad
        ELSE [rc |-> 0, flag |-> f.val, size |-> z.val, data |-> z.end + 2]

\* A copy that never reuses the buffer of the Item: what TextualCopy must
\* not be.
TextualCopy_always(it, m, ptr, elemsize, mallocOk) ==
    IF mallocOk
    THEN [rv |-> 0, freed |-> it.alloc, malloced |-> TRUE,
          item |-> [it EXCEPT !.alloc = TRUE, !.size = elemsize,
                              !.data = Bytes(m, ptr, elemsize)]]
    ELSE [rv |-> -1, freed |-> it.alloc, malloced |-> FALSE,
          item |-> [it EXCEPT !.alloc = FALSE, !.size = 0, !.data = <<>>]]

\* The end of textual_get, from "void *result = ptr": the Item after it, and
\* the return value.  ptr is an index into m; mallocOk is what malloc did.
TextualCopy(it, m, ptr, elemsize, mallocOk) ==
    IF elemsize > it.size
    THEN IF mallocOk
         THEN [rv |-> 0, freed |-> it.alloc, malloced |-> TRUE,
               item |-> [it EXCEPT !.alloc = TRUE, !.size = elemsize,
                                   !.data = Bytes(m, ptr, elemsize)]]
         ELSE [rv |-> -1, freed |-> it.alloc, malloced |-> FALSE,
               item |-> [it EXCEPT !.alloc = FALSE, !.size = 0, !.data = <<>>]]
    ELSE [rv |-> 0, freed |-> FALSE, malloced |-> FALSE,
          item |-> [it EXCEPT !.data = Bytes(m, ptr, it.size)]]

\* textual_get from "void *result = ptr" on.
TextualGetEnd(i, sv, nt, ptr, elemsize, cl) ==
    \E mallocOk \in BOOLEAN :
        LET c == TextualCopy(item, Mem(sv), ptr, elemsize, mallocOk)
        IN  Return(c.rv, [servers EXCEPT ![i] = sv], nt, c.item,
                   [cl EXCEPT !.freed = c.freed, !.malloced = c.malloced,
                              !.sized = TRUE, !.elemsize = elemsize,
                              !.nomem = ~c.item.alloc /\ c.rv = -1])

\* textual_get after the header line was received: server_receive returned
\* nread ((size_t)-1 is -1 here).
TextualGetHeader(i, sv, nt, nread, cl) ==
    LET m == Mem(sv)
        p == parse_value_line(m, 7)
        headsize == p.data - 1
        \* size_t chunk = nread - headsize wraps when nread < headsize
        short == nread >= headsize /\ nread - headsize < p.size + 7
    IN  IF StartsWith(m, 1, T_VALUE)
        THEN IF p.rc = -1
             THEN Return(-1, [servers EXCEPT ![i] =
                                server_disconnect([sv EXCEPT !.errmsg = "Protocol error"])],
                         nt, item, cl)
             ELSE IF short
             THEN Set("tget_rest",
                      [srv |-> i, offset |-> 0, base |-> nread,
                       size |-> (p.size - (nread - headsize)) + 7,
                       ptr |-> p.data, elemsize |-> p.size],
                      ret, [servers EXCEPT ![i] = sv], nt, item, cl)
             ELSE TextualGetEnd(i, sv, nt, p.data, p.size, cl)
        ELSE IF StartsWith(m, 1, T_END)
        THEN Return(-1, [servers EXCEPT ![i] = sv], nt, item, cl)
        ELSE Abort([servers EXCEPT ![i] = sv], nt, item, cl)

\* textual_get in server_receive(server, server->buffer, server->buffersize, 1)
textual_get_line ==
    /\ pc = "tget_line"
    /\ LET i == frame.srv
           sv == servers[i]
       IN  \E out \in RecvOutcomes(sv, net[i], BufferSize - frame.offset) :
             LET r == server_receive(Mem(sv), 0, frame.offset, BufferSize, TRUE,
                                     out, net[i])
                 sv2 == Received(Poke(sv, 0, r.m), r.status)
                 nt == [net EXCEPT ![i] = Consumed(@, out)]
                 cl == Fault(call, out)
             IN  IF r.status = "again"
                 THEN Set(pc, [frame EXCEPT !.offset = r.offset], ret,
                          [servers EXCEPT ![i] = sv2], nt, item, cl)
                 ELSE TextualGetHeader(i, sv2, nt, r.rv, cl)

\* textual_get in server_receive(server, server->buffer + nread, ..., 0),
\* whose result it does not look at
textual_get_rest ==
    /\ pc = "tget_rest"
    /\ LET i == frame.srv
           sv == servers[i]
       IN  \E out \in RecvOutcomes(sv, net[i], frame.size - frame.offset) :
             LET r == server_receive(Mem(sv), frame.base, frame.offset, frame.size,
                                     FALSE, out, net[i])
                 sv2 == Received(Poke(sv, 0, r.m), r.status)
                 nt == [net EXCEPT ![i] = Consumed(@, out)]
                 cl == Fault(call, out)
             IN  IF r.status = "again"
                 THEN Set(pc, [frame EXCEPT !.offset = r.offset], ret,
                          [servers EXCEPT ![i] = sv2], nt, item, cl)
                 ELSE TextualGetEnd(i, sv2, nt, frame.ptr, frame.elemsize, cl)

\* textual_get up to its first recv: the request is sent (its result is not
\* looked at) and the peer answers with reply.
textual_get(i, sv, it, cl, Replies) ==
    \E ok \in BOOLEAN, reply \in Replies :
        Set("tget_line", [NoFrame EXCEPT !.srv = i], ret,
            [servers EXCEPT ![i] = server_sendv(sv, ok)],
            [net EXCEPT ![i] = Answered(@, ok, reply)], it,
            [cl EXCEPT !.io = TRUE, !.fault = IF ok THEN "none" ELSE "send",
                       !.reply = IF ok /\ ~net[i].eof THEN reply ELSE NoReply,
                       !.stream = Answered(net[i], ok, reply).bytes])

\* sprintf(server->buffer, " %d %ld %ld\r\n", flags, exptime, size), flags = 0
StoreHeader(it) ==
    <<SP, "0", SP>> \o Dec(it.exptime) \o <<SP>> \o Dec(it.size) \o T_CRLF \o <<NUL>>

\* One turn of the receive loop of textual_store: recv returned out.  status
\* is "again", or "ret" with the return value rv and the server as it is left.
TextualStoreTurn(sv, offset, out, w) ==
    LET lost(msg) == [status |-> "ret", rv |-> -1, offset |-> offset,
                      sv |-> server_disconnect([sv EXCEPT !.errmsg = msg])]
        sv2 == Poke(sv, offset, SubSeq(w.bytes, 1, out.n))
        off2 == offset + out.n
        m == Mem(sv2)
    IN  IF out.k = "err" THEN lost("Failed to receive data from server")
        ELSE IF out.n = 0 THEN lost("Lost contact with server")
        ELSE IF StrChr(m, 1, CR) # 0 /\ StartsWith(m, 1, T_STORED)
        THEN [status |-> "ret", rv |-> 0, offset |-> off2, sv |-> sv2]
        ELSE IF StrChr(m, 1, CR) # 0 /\ StartsWith(m, 1, T_NOT_STORED)
        THEN [status |-> "ret", rv |-> -1, offset |-> off2,
              sv |-> [sv2 EXCEPT !.errmsg = "Item NOT stored"]]
        ELSE IF off2 = BufferSize
        THEN [status |-> "ret", rv |-> -1, offset |-> off2,
              sv |-> server_disconnect([sv2 EXCEPT !.errmsg = "Out of sync with server..."])]
        ELSE [status |-> "again", rv |-> 0, offset |-> off2, sv |-> sv2]

\* textual_store in recv(server->sock, server->buffer + offset, ...)
textual_store_recv ==
    /\ pc = "tstore_recv"
    /\ LET i == frame.srv
           sv == servers[i]
       IN  \E out \in RecvOutcomes(sv, net[i], BufferSize - frame.offset) :
             LET t == TextualStoreTurn(sv, frame.offset, out, net[i])
                 nt == [net EXCEPT ![i] = Consumed(@, out)]
                 cl == Fault(call, out)
             IN  IF t.status = "again"
                 THEN Set(pc, [frame EXCEPT !.offset = t.offset], ret,
                          [servers EXCEPT ![i] = t.sv], nt, item, cl)
                 ELSE Return(t.rv, [servers EXCEPT ![i] = t.sv], nt, item, cl)

\* textual_store up to its first recv
textual_store(i, sv, it, cl, Replies) ==
    \E ok \in BOOLEAN, reply \in Replies :
        Set("tstore_recv", [NoFrame EXCEPT !.srv = i], ret,
            [servers EXCEPT ![i] = server_sendv(Poke(sv, 0, StoreHeader(it)), ok)],
            [net EXCEPT ![i] = Answered(@, ok, reply)], it,
            [cl EXCEPT !.io = TRUE, !.fault = IF ok THEN "none" ELSE "send",
                       !.reply = IF ok /\ ~net[i].eof THEN reply ELSE NoReply,
                       !.stream = Answered(net[i], ok, reply).bytes])

\* --------------------------------------------------------- binary codec
\* The bytes 0x00 .. 0x0f, and the value of a byte of the model.
HexBytes == <<"x00", "x01", "x02", "x03", "x04", "x05", "x06", "x07",
              "x08", "x09", "x0a", "x0b", "x0c", "x0d", "x0e", "x0f">>
ByteVal(b) ==
    IF \E i \in 1..16 : HexBytes[i] = b
    THEN (CHOOSE i \in 1..16 : HexBytes[i] = b) - 1
    ELSE CASE b = "x81" -> 129 [] b = "xff" -> 255 [] b = "x" -> 120
           [] b = "y" -> 121 [] b = "o" -> 111 [] OTHER -> 63

\* A length no allocation can have, and no peer sends: all such lengths are
\* one length in the model.
Huge == 256 * 256
\* ntohl of the four bytes b of a length field
ntohl(b) ==
    IF ByteVal(b[1]) # 0 \/ ByteVal(b[2]) # 0 THEN Huge
    ELSE ByteVal(b[3]) * 256 + ByteVal(b[4])

\* A swap that reverses the bytes of each 32-bit half: what swap64 must not
\* be.
swap64_halves(in) ==
    <<in[4], in[3], in[2], in[1], in[8], in[7], in[6], in[5]>>

\* swap64 on the eight bytes of an int64_t, lowest byte first:
\*   for (i = 0; i < 8; i++) { rv = (rv << 8) | (in & 0xff); in >>= 8; }
RECURSIVE Swap64Loop(_, _, _)
Swap64Loop(rv, in, i) ==
    IF i = 8 THEN rv
    ELSE Swap64Loop(<<in[1]>> \o SubSeq(rv, 1, 7),
                    Tail(in) \o <<IF ByteVal(in[8]) >= 128 THEN "xff" ELSE "x00">>,
                    i + 1)
swap64(in) == Swap64Loop(Fill(8, "x00"), in, 0)

\* The fields of the 24 bytes of a protocol_binary_response_header.
Header(h) ==
    [extlen |-> ByteVal(h[5]),
     ok |-> h[7] = "x00" /\ h[8] = "x00",         \* status == 0
     rawbody |-> SubSeq(h, 9, 12),
     bodylen |-> ntohl(SubSeq(h, 9, 12)),
     cas |-> SubSeq(h, 17, 24)]

\* bodylen - extlen in uint32_t
PayloadLen(h) ==
    IF h.bodylen = Huge \/ h.bodylen < h.extlen THEN Huge ELSE h.bodylen - h.extlen

\* The heap in front of item->data, as far as a receive can reach back.
Before == Fill(5, OOB)
ItemMem(it) == Before \o it.data
\* The Item once a receive into item->data left the memory as m; wild says
\* that bytes were stored outside the buffer.
ItemOf(it, m) ==
    [item |-> [it EXCEPT !.data = SubSeq(m, Len(Before) + 1, Len(Before) + Len(it.data))],
     wild |-> SubSeq(m, 1, Len(Before)) # Before \/ Len(m) > Len(ItemMem(it))]

\* binary_get from "item->cas_id = swap64(...)" on
BinaryGetEnd(i, sv, nt, it, cl) ==
    Return(0, [servers EXCEPT ![i] = sv], nt,
           [it EXCEPT !.cas_id = swap64(frame.hdr.cas)], cl)

\* binary_get once the header is in: the Item is sized, then the body is read.
BinaryGetBody(i, sv, nt, h, cl) ==
    LET n == PayloadLen(h)
        grow == item.alloc /\ n > item.size
        it1 == IF grow THEN [item EXCEPT !.alloc = FALSE, !.data = <<>>] ELSE item
        nomem == server_disconnect([sv EXCEPT !.errmsg = "failed to allocate memory"])
        f == [NoFrame EXCEPT !.srv = i]
    IN  IF h.ok
        THEN \E mallocOk \in (IF n = Huge THEN {FALSE} ELSE BOOLEAN) :
               LET it2 == IF it1.alloc THEN it1
                          ELSE [it1 EXCEPT !.size = n, !.alloc = mallocOk,
                                           !.data = IF mallocOk THEN Fill(n, OOB) ELSE <<>>]
                   cl2 == [cl EXCEPT !.freed = grow, !.malloced = ~it1.alloc /\ mallocOk,
                                     !.sized = TRUE, !.elemsize = n,
                                     !.nomem = ~it1.alloc /\ ~mallocOk]
                   f2 == [f EXCEPT !.size = it2.size] @@ [hdr |-> h, flags |-> Fill(4, OOB)]
               IN  IF ~it2.alloc
                   THEN Return(-1, [servers EXCEPT ![i] = nomem], nt, it2, cl2)
                   ELSE IF h.extlen = 0
                   THEN Set("bget_data", f2, ret, [servers EXCEPT ![i] = sv], nt, it2, cl2)
                   ELSE IF h.extlen # 4
                   THEN Abort([servers EXCEPT ![i] = sv], nt, it2, cl2)
                   ELSE Set("bget_readv", f2, ret, [servers EXCEPT ![i] = sv], nt, it2, cl2)
        ELSE \E mallocOk \in (IF h.bodylen = Huge THEN {FALSE} ELSE BOOLEAN) :
               IF ~mallocOk
               THEN Return(-1, [servers EXCEPT ![i] = nomem], nt, item, cl)
               ELSE Set("bget_err", [f EXCEPT !.size = h.bodylen] @@ [hdr |-> h],
                        ret, [servers EXCEPT ![i] = sv], nt, item, cl)

\* binary_get in readv(server->sock, iovec, 2): the flags, then item->data
binary_get_readv ==
    /\ pc = "bget_readv"
    /\ LET i == frame.srv
           sv == servers[i]
           h == frame.hdr
       IN  \E out \in RecvOutcomes(sv, net[i], 4 + item.size) :
             LET nread == IF out.k = "err" THEN -1 ELSE out.n
                 got == SubSeq(net[i].bytes, 1, out.n)
                 it2 == [item EXCEPT !.data =
                            Store(@, 1, SubSeq(got, 5, Len(got)))]
                 nt == [net EXCEPT ![i] = Consumed(@, out)]
                 cl == Fault(call, out)
             IN  IF nread < h.bodylen      \* partial read.. read the rest!
                 THEN Set("bget_more",
                          [frame EXCEPT !.offset = 0, !.base = nread - 4,
                                        !.size = item.size - (nread - 4)],
                          ret, servers, nt, it2, cl)
                 ELSE BinaryGetEnd(i, sv, nt, it2, cl)

\* binary_get in server_receive(server, item->data + nread, left, 0), or in
\* server_receive(server, item->data, item->size, 0) when there are no extras
binary_get_data(at) ==
    /\ pc = at
    /\ LET i == frame.srv
           sv == servers[i]
       IN  \E out \in RecvOutcomes(sv, net[i], frame.size - frame.offset) :
             LET r == server_receive(ItemMem(item), Len(Before) + frame.base,
                                     frame.offset, frame.size, FALSE, out, net[i])
                 sv2 == Received(sv, r.status)
                 nt == [net EXCEPT ![i] = Consumed(@, out)]
                 io == ItemOf(item, r.m)
                 cl == [Fault(call, out) EXCEPT !.wild = @ \/ io.wild]
             IN  CASE r.status = "again" ->
                        Set(pc, [frame EXCEPT !.offset = r.offset], ret,
                            [servers EXCEPT ![i] = sv2], nt, io.item, cl)
                   [] r.status = "done" -> BinaryGetEnd(i, sv2, nt, io.item, cl)
                   [] OTHER ->      \* abort(), or assert(nread == item->size)
                        Abort([servers EXCEPT ![i] = sv2], nt, io.item, cl)

binary_get_more == binary_get_data("bget_more")
binary_get_payload == binary_get_data("bget_data")

\* A store that reports success whatever the status: what StatusOf must
\* not be.
StatusOf_success(h) == 0

\* response.message.header.response.status == 0 ? 0 : -1
StatusOf(h) == IF h.ok THEN 0 ELSE -1

\* binary_get, or binary_store, in a server_receive whose bytes it drops and
\* whose result it does not look at: the body of an error response
binary_drain(at, get) ==
    /\ pc = at
    /\ LET i == frame.srv
           sv == servers[i]
       IN  \E out \in RecvOutcomes(sv, net[i], frame.size - frame.offset) :
             LET r == server_receive(<<>>, 0, frame.offset, frame.size, FALSE,
                                     out, net[i])
                 sv2 == Received(sv, r.status)
                 nt == [net EXCEPT ![i] = Consumed(@, out)]
                 cl == Fault(call, out)
             IN  IF r.status = "again"
                 THEN Set(pc, [frame EXCEPT !.offset = r.offset], ret,
                          [servers EXCEPT ![i] = sv2], nt, item, cl)
                 ELSE Return(IF get THEN -1 ELSE StatusOf(frame.hdr),
                             [servers EXCEPT ![i] = IF get THEN [sv2 EXCEPT !.errmsg = "server message"]
                                                    ELSE sv2],
                             nt, item, cl)

binary_get_error == binary_drain("bget_err", TRUE)

\* The request went out (server_sendv's result is not looked at) and the
\* call waits for the 24 bytes of the response header.
BinaryBegin(at, i, sv, it, cl, Replies) ==
    \E ok \in BOOLEAN, reply \in Replies :
        Set(at, [NoFrame EXCEPT !.srv = i] @@ [mem |-> Fill(24, OOB)], ret,
            [servers EXCEPT ![i] = server_sendv(sv, ok)],
            [net EXCEPT ![i] = Answered(@, ok, reply)], it,
            [cl EXCEPT !.io = TRUE, !.fault = IF ok THEN "none" ELSE "send",
                       !.reply = IF ok /\ ~net[i].eof THEN reply ELSE NoReply,
                       !.stream = Answered(net[i], ok, reply).bytes])

binary_get(i, sv, it, cl, Replies) == BinaryBegin("bget_hdr", i, sv, it, cl, Replies)

\* binary_store once the header is in
BinaryStoreBody(i, sv, nt, h, cl) ==
    LET rawzero == h.rawbody = Fill(4, "x00")
    IN  IF h.ok /\ ~rawzero
        THEN Return(-1, [servers EXCEPT ![i] =
                           server_disconnect([sv EXCEPT !.errmsg = "Unexpected data returned"])],
                    nt, item, cl)
        ELSE IF ~rawzero
        THEN \E mallocOk \in (IF h.bodylen = Huge THEN {FALSE} ELSE BOOLEAN) :
               IF ~mallocOk
               THEN Return(-1, [servers EXCEPT ![i] =
                                  server_disconnect([sv EXCEPT !.errmsg = "failed to allocate memory"])],
                           nt, item, [cl EXCEPT !.nomem = TRUE])
               ELSE Set("bstore_drain", [NoFrame EXCEPT !.srv = i, !.size = h.bodylen] @@ [hdr |-> h],
                        ret, [servers EXCEPT ![i] = sv], nt, item, cl)
        ELSE Return(IF h.ok THEN 0 ELSE -1, [servers EXCEPT ![i] = sv], nt, item, cl)

\* binary_get (and binary_store) in server_receive(server, response.bytes, 24, 0)
binary_header(at, get) ==
    /\ pc = at
    /\ LET i == frame.srv
           sv == servers[i]
       IN  \E out \in RecvOutcomes(sv, net[i], 24 - frame.offset) :
             LET r == server_receive(frame.mem, 0, frame.offset, 24, FALSE, out, net[i])
                 sv2 == Received(sv, r.status)
                 nt == [net EXCEPT ![i] = Consumed(@, out)]
                 cl == Fault(call, out)
             IN  CASE r.status = "again" ->
                        Set(pc, [frame EXCEPT !.offset = r.offset, !.mem = r.m], ret,
                            [servers EXCEPT ![i] = sv2], nt, item, cl)
                   [] r.status = "done" ->
                        IF get THEN BinaryGetBody(i, sv2, nt, Header(r.m), cl)
                        ELSE BinaryStoreBody(i, sv2, nt, Header(r.m), cl)
                   [] OTHER ->      \* nread != sizeof(response)
                        Return(-1, [servers EXCEPT ![i] =
                                      server_disconnect([sv2 EXCEPT !.errmsg = "Protocol error"])],
                               nt, item, cl)

binary_get_header == binary_header("bget_hdr", TRUE)
binary_store_header == binary_header("bstore_hdr", FALSE)
binary_store_drain == binary_drain("bstore_drain", FALSE)
binary_store(i, sv, it, cl, Replies) == BinaryBegin("bstore_hdr", i, sv, it, cl, Replies)

\* recv (or writev) returned -1 with errno EINTR: the loop asks again.
Interrupted ==
    /\ pc \notin {"idle", "aborted"}
    /\ servers[frame.srv].sock = "open"
    /\ UNCHANGED vars

\* ------------------------------------------------------------- the API
\* A call that, when the connect to its own server fails, connects the other
\* disconnected servers before it returns: what Dispatch must not be.
Dispatch_eager(op, key, it, Replies) ==
    LET idx == get_server(Handle(servers, protocol), key)
        i == idx + 1
        cl == [NoCall EXCEPT !.op = op, !.item0 = it, !.count = call.count + 1,
                  !.route = [key |-> key, n |-> Len(servers), idx |-> idx],
                  !.prev = IF call.route = NoRoute THEN call.prev ELSE call.route]
    IN  IF idx = -1
        THEN Return(-1, servers, net, it, cl)
        ELSE \E how \in (IF servers[i].sock = "closed" THEN ConnectHow ELSE {"ok"}) :
               LET was == servers[i].sock
                   sv == IF was = "closed" THEN server_connect(servers[i], how)
                         ELSE servers[i]
                   cl2 == [cl EXCEPT !.sock0 = was,
                                     !.connects = IF was = "closed" THEN 1 ELSE 0,
                                     !.how = IF was = "closed" THEN how ELSE "none"]
               IN  IF sv.sock = "closed"
                   THEN Return(-1, [j \in 1..Len(servers) |->
                                      IF j = i THEN sv ELSE server_connect(servers[j], "ok")],
                               net, it, cl2)
                   ELSE IF op = "get"
                   THEN IF protocol = "Binary"
                        THEN binary_get(i, sv, it, cl2, Replies)
                        ELSE textual_get(i, sv, it, cl2, Replies)
                   ELSE IF protocol = "Binary"
                        THEN binary_store(i, sv, it, cl2, Replies)
                        ELSE textual_store(i, sv, it, cl2, Replies)

\* The part libmemc_get and libmemc_store share: get_server, then
\* server_connect when the socket is -1, then the codec of the protocol.
Dispatch(op, key, it, Replies) ==
    LET idx == get_server(Handle(servers, protocol), key)
        i == idx + 1
        cl == [NoCall EXCEPT !.op = op, !.item0 = it, !.count = call.count + 1,
                  !.route = [key |-> key, n |-> Len(servers), idx |-> idx],
                  !.prev = IF call.route = NoRoute THEN call.prev ELSE call.route]
    IN  IF idx = -1
        THEN Return(-1, servers, net, it, cl)
        ELSE \E how \in (IF servers[i].sock = "closed" THEN ConnectHow ELSE {"ok"}) :
               LET was == servers[i].sock
                   sv == IF was = "closed" THEN server_connect(servers[i], how)
                         ELSE servers[i]
                   cl2 == [cl EXCEPT !.sock0 = was,
                                     !.connects = IF was = "closed" THEN 1 ELSE 0,
                                     !.how = IF was = "closed" THEN how ELSE "none"]
               IN  IF sv.sock = "closed"
                   THEN Return(-1, [servers EXCEPT ![i] = sv], net, it, cl2)
                   ELSE IF op = "get"
                   THEN IF protocol = "Binary"
                        THEN binary_get(i, sv, it, cl2, Replies)
                        ELSE textual_get(i, sv, it, cl2, Replies)
                   ELSE IF protocol = "Binary"
                        THEN binary_store(i, sv, it, cl2, Replies)
                        ELSE textual_store(i, sv, it, cl2, Replies)

libmemc_get(Keys, Items, Replies) ==
    /\ pc = "idle"
    /\ call.count < MaxCalls
    /\ \E key \in Keys, it \in Items :
          Dispatch("get", key, [it EXCEPT !.key = key], Replies)

libmemc_store(Keys, Items, Replies) ==
    /\ pc = "idle"
    /\ call.count < MaxCalls
    /\ \E key \in Keys, it \in Items :
          Dispatch("store", key, [it EXCEPT !.key = key], Replies)

\* ------------------------------------------- inputs and specifications
NoItem == [key |-> <<>>, alloc |-> FALSE, size |-> 0, data |-> <<>>, exptime |-> 0,
           cas_id |-> Fill(8, "x00")]
Buf(n, c) == [NoItem EXCEPT !.alloc = TRUE, !.size = n, !.data = Fill(n, c)]

Reply(kind, bytes) == [kind |-> kind, bytes |-> bytes, least |-> 1]
\* The replies rs, each arriving in one piece.
Whole(rs) == {[r EXCEPT !.least = Len(r.bytes)] : r \in rs}
R_STORED == Reply("stored", T_STORED)
R_NOT_STORED == Reply("not_stored", T_NOT_STORED)
R_ERROR == Reply("other", <<"E", "R", "R", "O", "R", CR, LF>>)
R_MISS == Reply("miss", T_END \o T_CRLF)
\* The value of key k as memcached sends it, and as the specification writes it (no key).
R_HIT(payload) ==
    [kind |-> "hit", payload |-> payload, least |-> 1,
     bytes |-> T_VALUE \o <<"k", SP, "0", SP>> \o Dec(Len(payload)) \o T_CRLF
               \o payload \o T_CRLF \o T_END \o T_CRLF]
R_HIT_NOKEY(payload) ==
    [kind |-> "hit", payload |-> payload, least |-> 1,
     bytes |-> T_VALUE \o <<"0", SP>> \o Dec(Len(payload)) \o T_CRLF
               \o payload \o T_CRLF \o T_END \o T_CRLF]

\* Binary responses: the 24 bytes of the header, then the body.
Be16(n) == <<HexBytes[(n \div 16) + 1], HexBytes[(n % 16) + 1]>>
BinHeader(status, extlen, bodylen, cas) ==
    <<"x81", "x00", "x00", "x00", HexBytes[extlen + 1], "x00">> \o status
        \o <<"x00", "x00">> \o Be16(bodylen) \o Fill(4, "x00") \o cas
Cas1 == <<"x01", "x02", "x03", "x04", "x05", "x06", "x07", "x81">>
B_OK == <<"x00", "x00">>
B_NOT_FOUND == <<"x00", "x01">>
B_EXISTS == <<"x00", "x02">>
\* A value with its four bytes of flags in front, and one without extras.
B_HIT(payload) ==
    [kind |-> "hit", payload |-> payload, extlen |-> 4, least |-> 1,
     bytes |-> BinHeader(B_OK, 4, 4 + Len(payload), Cas1) \o Fill(4, "x00") \o payload]
B_HIT_PLAIN(payload) ==
    [kind |-> "hit", payload |-> payload, extlen |-> 0, least |-> 1,
     bytes |-> BinHeader(B_OK, 0, Len(payload), Cas1) \o payload]
B_MISS == Reply("miss", BinHeader(B_NOT_FOUND, 0, 2, Fill(8, "x00")) \o <<"N", "F">>)
B_STORED == Reply("stored", BinHeader(B_OK, 0, 0, Cas1))
B_NOT_STORED ==
    Reply("not_stored", BinHeader(B_EXISTS, 0, 2, Fill(8, "x00")) \o <<"E", "X">>)
B_STORED_BODY == Reply("other", BinHeader(B_OK, 0, 1, Cas1) \o <<"x">>)

Keys == {<<"a">>, <<"b">>, <<"a", "b", "c", "a", "b", "c", "a", "b", "c", "z">>}
GetItems == {NoItem, Buf(1, "o"), Buf(3, "o")}
PutItems == {Buf(1, "v")}

Start(Protocols) ==
    /\ protocol \in Protocols
    /\ servers = <<>>
    /\ net = <<>>
    /\ item = NoItem
    /\ pc = "idle"
    /\ frame = NoFrame
    /\ ret = 0
    /\ call = NoCall

Both == {"Textual", "Binary"}
ByProtocol(text, bin) == IF protocol = "Binary" THEN bin ELSE text

\* Fetches from one server, in either protocol.
Init == Start(Both)
Next ==
    \/ libmemc_add_server(1, {"h1"}, ByProtocol({Fresh, Recycled, RecycledCR}, {Fresh}))
    \/ libmemc_get({<<"k">>}, GetItems \cup {item},
                   ByProtocol({R_MISS, R_HIT(<<"x", "y">>), R_HIT(<<>>),
                               R_HIT_NOKEY(<<"x", "y">>), R_ERROR},
                              {B_MISS, B_HIT(<<"x", "y">>), B_HIT(<<>>),
                               B_HIT_PLAIN(<<"x", "y">>)}))
    \/ textual_get_line
    \/ textual_get_rest
    \/ binary_get_header
    \/ binary_get_readv
    \/ binary_get_more
    \/ binary_get_payload
    \/ binary_get_error
    \/ Interrupted
Spec == Init /\ [][Next]_vars

\* Stores to one server, in either protocol.
NextStore ==
    \/ libmemc_add_server(1, {"h1"}, ByProtocol({Fresh, Recycled, RecycledCR}, {Fresh}))
    \/ libmemc_store({<<"k">>}, PutItems,
                     ByProtocol({R_STORED, R_NOT_STORED, R_ERROR},
                                {B_STORED, B_NOT_STORED, B_STORED_BODY}))
    \/ textual_store_recv
    \/ binary_store_header
    \/ binary_store_drain
    \/ Interrupted
SpecStore == Init /\ [][NextStore]_vars

\* The router: up to MaxServers servers, several keys, short replies.
NextRouter ==
    \/ libmemc_add_server(MaxServers, {"h1"}, {Fresh})
    \/ libmemc_store(Keys, PutItems, Whole(ByProtocol({R_STORED}, {B_STORED})))
    \/ libmemc_get(Keys, {NoItem}, Whole(ByProtocol({R_MISS}, {B_MISS})))
    \/ textual_store_recv
    \/ textual_get_line
    \/ binary_store_header
    \/ binary_get_header
    \/ binary_get_error
    \/ Interrupted
SpecRouter == Init /\ [][NextRouter]_vars

\* A line as long as the scratch buffer with no '\r' in it: an error text,
\* and a VALUE line for a key that is too long.
R_LONG == Reply("long", Fill(BufferSize, "G"))
R_LONG_VALUE == Reply("long", T_VALUE \o Fill(BufferSize - Len(T_VALUE), "k"))

\* Textual fetches and stores that are answered with such a line.
NextLine ==
    \/ libmemc_add_server(1, {"h1"}, {Fresh, Recycled})
    \/ libmemc_get({<<"k">>}, {NoItem}, {R_LONG, R_LONG_VALUE})
    \/ libmemc_store({<<"k">>}, PutItems, {R_LONG, R_LONG_VALUE})
    \/ textual_get_line
    \/ textual_store_recv
    \/ Interrupted
InitLine == Start({"Textual"})
SpecLine == InitLine /\ [][NextLine]_vars

\* A value that does not fit into the scratch buffer behind its header.
BigPayload == Fill(BufferSize \div 4, "p")

\* Textual fetches of small and large values, and stores, on one server.
NextBig ==
    \/ libmemc_add_server(1, {"h1"}, {Fresh})
    \/ libmemc_get({<<"k">>}, {NoItem}, {R_HIT(<<"x", "y">>), R_HIT(BigPayload)})
    \/ libmemc_store({<<"k">>}, PutItems, {R_STORED, R_NOT_STORED})
    \/ textual_get_line
    \/ textual_get_rest
    \/ textual_store_recv
    \/ Interrupted
SpecBig == InitLine /\ [][NextBig]_vars

\* ------------------------------------- the transfer loops on their own
\* server_sendv works on an array of struct iovec: iov[ii].base counts the
\* bytes of buffer ii that iov_base has moved over, iov[ii].len is iov_len.
Iovec(bufs) == [ii \in 1..Len(bufs) |-> [base |-> 0, len |-> Len(bufs[ii])]]

\* size += iov[ii].iov_len, over the array
RECURSIVE IovSize(_, _)
IovSize(iov, ii) == IF ii > Len(iov) THEN 0 ELSE iov[ii].len + IovSize(iov, ii + 1)

\* The bytes writev(sock, iov, iovcnt) is offered, in the order it takes them.
RECURSIVE Gather(_, _, _)
Gather(bufs, iov, ii) ==
    IF ii > Len(iov) THEN <<>>
    ELSE SubSeq(bufs[ii], iov[ii].base + 1, iov[ii].base + iov[ii].len)
            \o Gather(bufs, iov, ii + 1)

\* A bookkeeping that takes the bytes off iov_len and leaves iov_base where
\* it was: what IovAdvance must not be.
RECURSIVE IovAdvance_nobase(_, _, _, _)
IovAdvance_nobase(iov, size, sent, ii) ==
    IF ii > Len(iov) \/ sent <= 0 THEN [iov |-> iov, size |-> size]
    ELSE IF iov[ii].len < sent
    THEN IovAdvance_nobase([iov EXCEPT ![ii].len = 0], size - iov[ii].len,
                           sent - iov[ii].len, ii + 1)
    ELSE [iov |-> [iov EXCEPT ![ii].len = @ - sent], size |-> size - sent]

\* for (ii = 0; ii < iovcnt && sent > 0; ++ii): the array and size after a
\* writev that took sent bytes, fewer than size.
RECURSIVE IovAdvance(_, _, _, _)
IovAdvance(iov, size, sent, ii) ==
    IF ii > Len(iov) \/ sent <= 0 THEN [iov |-> iov, size |-> size]
    ELSE IF iov[ii].len < sent
    THEN IovAdvance([iov EXCEPT ![ii].len = 0], size - iov[ii].len,
                    sent - iov[ii].len, ii + 1)
    ELSE [iov |-> [iov EXCEPT ![ii].base = @ + sent, ![ii].len = @ - sent],
          size |-> size - sent]

\* What writev can do when it is offered size bytes: fail, or take some of
\* them (at least one when there is one).  EINTR is the action Interrupted.
WritevOutcomes(size) ==
    {[k |-> "err", n |-> 0]}
        \cup {[k |-> "data", n |-> n] : n \in (IF size = 0 THEN {0} ELSE 1..size)}

\* server_sendv(server, iov, iovcnt) up to its first writev
server_sendv_call(Messages) ==
    /\ pc = "idle"
    /\ call.count < MaxCalls
    /\ servers[1].sock = "open"
    /\ \E bufs \in Messages :
          /\ frame' = [NoFrame EXCEPT !.srv = 1, !.size = IovSize(Iovec(bufs), 1)]
                          @@ [iov |-> Iovec(bufs)]
          /\ call' = [NoCall EXCEPT !.op = "sendv", !.count = call.count + 1]
                          @@ [bufs |-> bufs, wire |-> <<>>, writes |-> 0]
    /\ pc' = "sendv"
    /\ UNCHANGED <<protocol, servers, net, item, ret>>

\* One turn of the loop of server_sendv: writev returned.
server_sendv_writev ==
    /\ pc = "sendv"
    /\ \E out \in WritevOutcomes(frame.size) :
          LET taken == SubSeq(Gather(call.bufs, frame.iov, 1), 1, out.n)
              cl == [call EXCEPT !.wire = @ \o taken, !.writes = @ + 1, !.io = TRUE,
                                 !.fault = IF out.k = "err" THEN "send" ELSE @]
              a == IovAdvance(frame.iov, frame.size, out.n, 1)
          IN  IF out.k = "err"
              THEN Return(-1, [servers EXCEPT ![1] = server_sendv(@, FALSE)], net, item, cl)
              ELSE IF out.n = frame.size
              THEN Return(0, [servers EXCEPT ![1] = server_sendv(@, TRUE)], net, item, cl)
              ELSE IF a.size > 0
              THEN Set(pc, [frame EXCEPT !.iov = a.iov, !.size = a.size], ret,
                       servers, net, item, cl)
              ELSE Return(0, servers, net, item, cl)

\* server_receive(server, server->buffer, size, line) up to its first recv;
\* the peer has sent the bytes sent.
server_receive_call(Lines, Sizes, Streams) ==
    /\ pc = "idle"
    /\ call.count < MaxCalls
    /\ servers[1].sock = "open"
    /\ \E line \in Lines, sent \in Streams :
        \E size \in (IF line THEN {BufferSize} ELSE Sizes) :
          /\ frame' = [NoFrame EXCEPT !.srv = 1, !.size = size] @@ [line |-> line]
          /\ net' = [net EXCEPT ![1] = Answered(@, TRUE, Reply("bytes", sent))]
          /\ call' = [NoCall EXCEPT !.op = "receive", !.count = call.count + 1,
                                    !.stream = Answered(net[1], TRUE, Reply("bytes", sent)).bytes]
                          @@ [line |-> line, size |-> size, got |-> <<>>, asked |-> 0,
                              room |-> size]
    /\ pc' = "recv"
    /\ UNCHANGED <<protocol, servers, item, ret>>

\* One turn of the loop of server_receive: recv returned.
server_receive_recv ==
    /\ pc = "recv"
    /\ LET sv == servers[1]
           len == frame.size - frame.offset
       IN  \E out \in RecvOutcomes(sv, net[1], len) :
             LET r == server_receive(Mem(sv), 0, frame.offset, frame.size, frame.line,
                                     out, net[1])
                 sv2 == Received(Poke(sv, 0, r.m), r.status)
                 nt == [net EXCEPT ![1] = Consumed(@, out)]
                 cl == [Fault(call, out) EXCEPT
                           !.got = @ \o SubSeq(net[1].bytes, 1, out.n),
                           !.asked = len, !.room = frame.size - Len(call.got)]
             IN  IF r.status = "again"
                 THEN Set(pc, [frame EXCEPT !.offset = r.offset], ret,
                          [servers EXCEPT ![1] = sv2], nt, item, cl)
                 ELSE Set("idle", NoFrame, r.rv, [servers EXCEPT ![1] = sv2],
                          [nt EXCEPT ![1].least = 1], item, cl)

\* A connected server whose buffer is as malloc left it.
InitIO ==
    /\ protocol = "Textual"
    /\ \E heap \in {Fresh, Recycled, RecycledCR} :
          servers = <<server_create(1, "h1", heap.image, heap.after, "ok")>>
    /\ net = <<FreshNet>>
    /\ item = NoItem
    /\ pc = "idle"
    /\ frame = NoFrame
    /\ ret = 0
    /\ call = NoCall

\* The lists of 1 .. n buffers out of bs.
RECURSIVE Lists(_, _)
Lists(bs, n) ==
    IF n = 0 THEN {}
    ELSE {<<b>> : b \in bs} \cup Lists(bs, n - 1)
            \cup {Append(l, b) : l \in Lists(bs, n - 1), b \in bs}

SendBuffers == {<<>>, <<"a">>, <<"b", "c">>, <<"d", "e", "f">>}

\* Gathered writes of up to MaxIov buffers under every split.
NextSendv ==
    \/ server_sendv_call(Lists(SendBuffers, MaxIov))
    \/ server_sendv_writev
    \/ Interrupted
SpecSendv == InitIO /\ [][NextSendv]_vars

RecvStreams == {<<"a", "b", "c">>, <<"a", CR, LF>>, <<"E", "N", "D", CR, LF>>}

\* Receives of lines and of exact counts into the scratch buffer, one after
\* another on the same stream.
NextReceive ==
    \/ server_receive_call(BOOLEAN, 0..3, RecvStreams)
    \/ server_receive_recv
    \/ Interrupted
SpecReceive == InitIO /\ [][NextReceive]_vars

\* ------------------------------------------------------ the cas token
\* The bytes a token is made of in the model, and the tokens: every int64_t
\* with those bytes, lowest byte first.
TokenBytes == {"x00", "x01", "xff"}
Tokens == [1..8 -> TokenBytes]

\* binary_get at "item->cas_id = swap64(response...cas)": the eight bytes
\* of the field as they came off the wire are in memory, lowest address
\* first, which on a little-endian host is lowest byte first.
cas_fetch ==
    /\ pc = "idle"
    /\ call.op = "none"
    /\ \E wire \in Tokens :
          /\ item' = [item EXCEPT !.cas_id = swap64(wire)]
          /\ frame' = NoFrame @@ [response |-> wire]
          /\ call' = [NoCall EXCEPT !.op = "cas", !.count = 1]
    /\ pc' = "fetched"
    /\ UNCHANGED <<protocol, servers, net, ret>>

\* binary_store at "request...cas = swap64(item->cas_id)": the eight bytes
\* that go out on the wire.
cas_store ==
    /\ pc = "fetched"
    /\ frame' = frame @@ [request |-> swap64(item.cas_id)]
    /\ pc' = "sent"
    /\ UNCHANGED <<protocol, servers, net, item, ret, call>>

\* One token goes through a fetch and then a store.
InitCas == Start({"Binary"})
NextCas == cas_fetch \/ cas_store
SpecCas == InitCas /\ [][NextCas]_vars

\* A peer that closes the connection without answering, and one that closes
\* it ten bytes into the header of a binary response.
R_CLOSED == Reply("closed", <<>>)
B_CUT == Reply("closed", SubSeq(BinHeader(B_OK, 0, 0, Cas1), 1, 10))

\* Stores and fetches on one server whose peer closes the connection; every
\* step that changes the state is taken in the end: recv returns, and the
\* caller goes on to its next call.
NextClose ==
    \/ libmemc_add_server(1, {"h1"}, {Fresh})
    \/ libmemc_store({<<"k">>}, PutItems, ByProtocol({R_CLOSED}, {R_CLOSED, B_CUT}))
    \/ libmemc_get({<<"k">>}, {NoItem}, ByProtocol({R_CLOSED}, {R_CLOSED, B_CUT}))
    \/ textual_store_recv
    \/ textual_get_line
    \/ binary_store_header
    \/ binary_get_header
    \/ Interrupted
SpecClose == Init /\ [][NextClose]_vars /\ WF_vars(NextClose)

\* ------------------------------------------------------------ properties
LongKey == <<"a", "b", "c", "a", "b", "c", "a", "b", "c", "z">>

\* simplehash(key) mod n from the values the C function returns for the keys
\* of the model: 1649 for "a", 1666 for "b" and 2542368938, which is
\* 38793 * 65536 + 30890, for "abcabcabcz".
ExpectedServer(key, n) ==
    LET h == CASE key = <<"a">> -> <<0, 1649>>
               [] key = <<"b">> -> <<0, 1666>>
               [] key = LongKey -> <<38793, 30890>>
               [] OTHER -> <<0, 0>>
    IN  (((h[1] % n) * (65536 % n)) + h[2]) % n

IsCall == call.op \in {"get", "store"}

\* C1: every store or fetch call works on the server at index
\* simplehash(key) mod n of the n >= 1 registered servers, an index in
\* 0..n-1 that is 0 when n = 1 and the index the call before it chose when
\* that call had the same key and the same n, whatever the protocol and
\* whichever servers are connected.
C1_Routing ==
    IsCall =>
        LET r == call.route
        IN  /\ r.n = Len(servers)
            /\ (r.n = 0) => (r.idx = -1)
            /\ (r.n >= 1) =>
                  /\ r.idx \in 0..(r.n - 1)
                  /\ r.idx = ExpectedServer(r.key, r.n)
                  /\ (r.n = 1) => (r.idx = 0)
                  /\ (pc \notin {"idle", "aborted"}) => (frame.srv = r.idx + 1)
            /\ (call.prev.key = r.key /\ call.prev.n = r.n) => (call.prev.idx = r.idx)

\* A second call for the same key on two servers goes to the second server
\* again, which was disconnected when the call began.
C1_Witness ==
    /\ IsCall
    /\ call.route.n = 2
    /\ call.route.idx = 1
    /\ call.prev.key = call.route.key
    /\ call.prev.n = 2
    /\ call.sock0 = "closed"
    /\ pc \notin {"idle", "aborted"}

\* The server the call works on, and its stream.
Selected == servers[call.route.idx + 1]
Stream == net[call.route.idx + 1]
Returned(op) == pc = "idle" /\ call.op = op
\* The response was sent by the peer and no send or receive failed.
Clean(kinds) == call.reply.kind \in kinds /\ call.fault = "none"
Payload == call.reply.payload

\* C2: a call in which a send or a receive failed, the peer closed, or the
\* response was not one of the protocol does not end the process, and when
\* it has returned it has returned -1 with the server disconnected and an
\* error message recorded.
C2_FailureDisconnects ==
    (IsCall /\ call.route.idx >= 0 /\ (call.fault # "none" \/ call.reply.kind = "other")) =>
        /\ pc # "aborted"
        /\ (pc = "idle") =>
              /\ ret = -1
              /\ Selected.sock = "closed"
              /\ Selected.errmsg # "none"

\* C3: a textual fetch answered "END\r\n" returns something other than the
\* -1 of a failure, with the size and the data of the Item as they were and
\* the server connected.
C3_MissIsNotFailure ==
    (Returned("get") /\ protocol = "Textual" /\ Clean({"miss"})) =>
        /\ ret # -1
        /\ item.size = call.item0.size
        /\ item.data = call.item0.data
        /\ Selected.sock = "open"

\* C4: a textual fetch into an Item without a buffer, answered with the
\* value of the key and reading into zeroed memory, returns 0 with the size
\* and the data of the Item those of the payload, however the response was
\* split into reads.
C4_HitAnySplit ==
    (/\ Returned("get")
     /\ protocol = "Textual"
     /\ call.fault = "none"
     /\ call.reply \in {R_HIT(<<"x", "y">>), R_HIT(<<>>)}
     /\ call.count = 1
     /\ ~call.item0.alloc
     /\ Selected.buffer[BufferSize] = NUL) =>
        /\ ret = 0
        /\ item.size = Len(Payload)
        /\ item.data = Payload

\* C5: after a fetch that returned 0 on a value of the key, the size of the
\* Item is the length of the payload and its data begin with the payload.
C5_SizeIsPayload ==
    (Returned("get") /\ ret = 0 /\ Clean({"hit"})) =>
        /\ item.size = Len(Payload)
        /\ Len(item.data) >= Len(Payload)
        /\ SubSeq(item.data, 1, Len(Payload)) = Payload

\* C6, as the spec states it: when no allocation failed, a payload no larger
\* than the size of the Item leaves the buffer alone (no free, no malloc),
\* and a larger one frees the old buffer, allocates one of the length of the
\* payload and sets the size of the Item to it.
C6_Reuse_AsStated ==
    (call.sized /\ ~call.nomem) =>
        LET n == call.elemsize
            it0 == call.item0
        IN  /\ (n <= it0.size) => (~call.freed /\ ~call.malloced)
            /\ (n > it0.size) =>
                  (call.freed = it0.alloc /\ call.malloced /\ item.size = n)

\* C6: once a fetch has decoded the length n of the payload:
\*  - an Item that holds a buffer of n bytes or more keeps it: nothing is
\*    freed, nothing allocated, and its size stays;
\*  - for n larger than the size of the Item, the old buffer (if any) is freed
\*    and n bytes are asked for; when malloc gives them the Item holds n
\*    bytes with size n, when it does not the Item holds no buffer;
\*  - an Item that holds no buffer and has size 0 = n frees nothing; the
\*    textual fetch allocates nothing, the binary fetch asks for n bytes.
C6_Reuse ==
    call.sized =>
        LET n == call.elemsize
            it0 == call.item0
        IN  /\ (it0.alloc /\ n <= it0.size) =>
                  /\ ~call.freed
                  /\ ~call.malloced
                  /\ ~call.nomem
                  /\ item.alloc
                  /\ item.size = it0.size
            /\ (n > it0.size) =>
                  /\ call.freed = it0.alloc
                  /\ call.malloced # call.nomem
                  /\ call.malloced => (item.alloc /\ item.size = n /\ Len(item.data) = n)
                  /\ call.nomem => ~item.alloc
            /\ (~it0.alloc /\ n <= it0.size) =>
                  /\ ~call.freed
                  /\ (protocol = "Textual") => (~call.malloced /\ ~call.nomem)
                  /\ (protocol = "Binary") => (call.malloced # call.nomem)

\* A fetch of two bytes into an Item that holds three has returned 0 on the
\* buffer it was handed.
C6_Witness ==
    /\ Returned("get")
    /\ ret = 0
    /\ call.sized
    /\ call.elemsize = 2
    /\ call.item0.alloc
    /\ call.item0.size = 3
    /\ ~call.malloced

\* C7: once every byte of a "STORED\r\n" or "NOT_STORED\r\n" response was
\* received, the textual store has returned, 0 for the first and -1 with
\* "Item NOT stored" for the second, and the server is connected.
C7_StoreOutcome ==
    (/\ call.op = "store"
     /\ protocol = "Textual"
     /\ Clean({"stored", "not_stored"})
     /\ Stream.bytes = <<>>) =>
        /\ pc = "idle"
        /\ Selected.sock = "open"
        /\ (call.reply.kind = "stored") => (ret = 0)
        /\ (call.reply.kind = "not_stored") =>
              (ret = -1 /\ Selected.errmsg = "Item NOT stored")

\* C8: once every byte of a response line that is neither "STORED\r\n" nor
\* "NOT_STORED\r\n" was received, the textual store has returned -1 and the
\* server is disconnected.
C8_RejectsUnknown ==
    (/\ call.op = "store"
     /\ protocol = "Textual"
     /\ Clean({"other"})
     /\ call.count = 1
     /\ Stream.bytes = <<>>) =>
        /\ pc = "idle"
        /\ ret = -1
        /\ Selected.sock = "closed"

AddStep == pc = "idle" /\ call'.op = "add"

\* C9: the list before a step of add_server is a prefix of the list after
\* it, the list grows by one exactly when server_create returned a Server,
\* and a step of store or fetch leaves the same Servers at the same indexes.
C9_AppendOnly ==
    [][/\ Len(servers') = Len(servers) + (IF AddStep /\ call'.created THEN 1 ELSE 0)
       /\ \A i \in 1..Len(servers) :
             /\ servers'[i].addr = servers[i].addr
             /\ AddStep => (servers'[i] = servers[i])]_vars

\* A second Server was appended after a store or fetch call was made.
C9_Witness ==
    /\ call.op = "add"
    /\ call.created
    /\ call.count >= 1
    /\ Len(servers) = 2
    /\ servers[1].addr # servers[2].addr

\* C10: a call that found its server disconnected and whose connect failed
\* has returned -1, sent and received nothing, left the Item as it was
\* handed in, and left the server disconnected.
C10_ConnectFailure ==
    (IsCall /\ call.how \in {"nosocket", "refused"}) =>
        /\ pc = "idle"
        /\ ret = -1
        /\ ~call.io
        /\ call.stream = <<>>
        /\ item = call.item0
        /\ servers[call.route.idx + 1].sock = "closed"
        /\ net[call.route.idx + 1] = FreshNet

\* The connect of the second call, for an Item that holds a buffer, was refused.
C10_Witness ==
    /\ IsCall
    /\ call.how = "refused"
    /\ call.count = 2
    /\ call.item0.alloc
    /\ ret = -1

\* A step in which a store or fetch call begins.
CallStep == pc = "idle" /\ call'.op \in {"get", "store"}

\* C11: a connect is attempted once when add_server creates a Server (which
\* is registered also when that connect failed), and once at the start of a
\* store or fetch call whose server is disconnected, never when it is
\* connected; a connect that succeeds there lets the call go on to send; a
\* disconnected server becomes connected only in the first step of a call
\* that routes to it, and no later step of a call connects again.
C11_LazyConnect ==
    [][/\ \A i \in 1..Len(servers) :
             (servers[i].sock = "closed" /\ servers'[i].sock = "open") =>
                 /\ CallStep
                 /\ call'.route.idx = i - 1
                 /\ call'.sock0 = "closed"
                 /\ call'.how = "ok"
       /\ (Len(servers') > Len(servers)) => (AddStep /\ call'.connects = 1)
       /\ (AddStep /\ call'.created) =>
             /\ Len(servers') = Len(servers) + 1
             /\ call'.connects = 1
       /\ (CallStep /\ call'.route.idx >= 0) =>
             /\ call'.connects =
                   (IF servers[call'.route.idx + 1].sock = "closed" THEN 1 ELSE 0)
             /\ (call'.connects = 1 /\ call'.how = "ok") => call'.io
             /\ (call'.connects = 1 /\ call'.how # "ok") =>
                   servers'[call'.route.idx + 1].sock = "closed"
       /\ (CallStep /\ call'.route.idx = -1) => (call'.connects = 0)
       /\ (pc # "idle") => (call'.connects = call.connects)
       /\ call'.connects \in {0, 1}]_vars

\* Two servers were registered with their connects failed; the first call
\* routes to the second one and has connected it, and the first one is
\* still disconnected.
C11_Witness ==
    /\ IsCall
    /\ call.count = 1
    /\ call.route.n = 2
    /\ call.route.idx = 1
    /\ call.sock0 = "closed"
    /\ call.how = "ok"
    /\ servers[2].sock = "open"
    /\ servers[1].sock = "closed"

\* C12: when a store or fetch call that was answered has returned with its
\* server connected, no byte of the response is left unread on the stream.
C12_InSync ==
    (/\ IsCall
     /\ pc = "idle"
     /\ call.route.idx >= 0
     /\ call.reply.kind # "none"
     /\ Selected.sock = "open") =>
        Stream.bytes = <<>>

\* The buffers of a gathered write, one after the other.
Flat(bufs) == Gather(bufs, Iovec(bufs), 1)

\* C13: the bytes writev has taken are at every moment the first bytes of
\* the buffers laid end to end; server_sendv is in its loop exactly as long
\* as bytes are left (size counts them), and when it has returned 0 the
\* transport has taken all of them, each once and in order.
C13_SendAll ==
    (call.op = "sendv") =>
        LET all == Flat(call.bufs)
        IN  /\ Len(call.wire) <= Len(all)
            /\ call.wire = SubSeq(all, 1, Len(call.wire))
            /\ (pc = "sendv") => (frame.size = Len(all) - Len(call.wire))
            /\ (pc = "sendv" /\ call.writes > 0) => (Len(call.wire) < Len(all))
            /\ (pc = "idle" /\ ret = 0) => (call.wire = all)
            /\ (pc = "idle" /\ ret # 0) => (ret = -1 /\ call.fault = "send")

\* Three buffers of one, two and three bytes went out one byte at a time.
C13_Witness ==
    /\ call.op = "sendv"
    /\ pc = "idle"
    /\ ret = 0
    /\ call.bufs = <<<<"a">>, <<"b", "c">>, <<"d", "e", "f">>>>
    /\ call.writes = 6
    /\ call.wire = <<"a", "b", "c", "d", "e", "f">>

\* C14: in a receive of exactly size bytes, the bytes received so far are
\* the first bytes of the stream and lie in that order at the start of the
\* destination; no recv asks for more than size less what was received
\* before it; the receive returns size only when size bytes are in, taking
\* no byte more off the stream, and returns otherwise only when recv failed.
C14_ReceiveExact ==
    (call.op = "receive" /\ ~call.line) =>
        LET n == Len(call.got)
        IN  /\ n <= call.size
            /\ call.got = SubSeq(call.stream, 1, n)
            /\ SubSeq(servers[1].buffer, 1, n) = call.got
            /\ call.asked <= call.room
            /\ (pc = "recv") => (frame.offset = n)
            /\ (pc = "idle" /\ ret # -1) =>
                  /\ ret = call.size
                  /\ n = call.size
                  /\ net[1].bytes = SubSeq(call.stream, n + 1, Len(call.stream))
            /\ (pc = "idle" /\ ret = -1) => (call.fault = "err")

\* Three bytes were asked for and came in more than one read, the last
\* read asked for the one byte that was missing.
C14_Witness ==
    /\ call.op = "receive"
    /\ ~call.line
    /\ pc = "idle"
    /\ ret = 3
    /\ call.asked = 1
    /\ call.got = <<"a", "b", "c">>

\* C15: a receive of a line that returns a count has a '\r' among the
\* count bytes it received, and while it is still reading no '\r' has been
\* received.
C15_LineStopsOnCR ==
    (call.op = "receive" /\ call.line) =>
        /\ (pc = "idle" /\ ret # -1) =>
              /\ ret = Len(call.got)
              /\ \E i \in 1..ret : servers[1].buffer[i] = CR
              /\ \E i \in 1..Len(call.got) : call.got[i] = CR
        /\ (pc = "recv") => (\A i \in 1..Len(call.got) : call.got[i] # CR)

\* C16: once a textual fetch or store has received a line of as many bytes
\* as the scratch buffer holds with no '\r' in it, the call has returned -1
\* and the server is disconnected with a protocol error recorded.
C16_OversizedLine ==
    (IsCall /\ call.route.idx >= 0 /\ Clean({"long"}) /\ Stream.bytes = <<>>) =>
        /\ pc = "idle"
        /\ ret = -1
        /\ Selected.sock = "closed"
        /\ Selected.errmsg \in {"Protocol error", "Out of sync with server..."}

\* The header of the response the peer sent to the call.
Sent == Header(SubSeq(call.reply.bytes, 1, 24))
BinaryStoreDone ==
    Returned("store") /\ protocol = "Binary" /\ call.reply.kind # "none" /\ call.fault = "none"

\* C17, as the spec states it: a binary store whose response header was
\* read returns 0 connected for status 0 and an empty body, returns -1
\* disconnected for status 0 and a body, and for any other status returns -1
\* connected with the body read off the stream.
C17_StoreDecode_AsStated ==
    BinaryStoreDone =>
        /\ (Sent.ok /\ Sent.bodylen = 0) =>
              (ret = 0 /\ Selected.sock = "open" /\ Stream.bytes = <<>>)
        /\ (Sent.ok /\ Sent.bodylen # 0) => (ret = -1 /\ Selected.sock = "closed")
        /\ ~Sent.ok => (ret = -1 /\ Selected.sock = "open" /\ Stream.bytes = <<>>)

\* C17: as above, but for a status other than 0 with a body the buffer the
\* body is read into has to be allocated: when malloc fails the store
\* returns -1 with the server disconnected, and otherwise it returns -1
\* connected with the body read off the stream.
C17_StoreDecode ==
    BinaryStoreDone =>
        /\ (Sent.ok /\ Sent.bodylen = 0) =>
              (ret = 0 /\ Selected.sock = "open" /\ Stream.bytes = <<>> /\ ~call.nomem)
        /\ (Sent.ok /\ Sent.bodylen # 0) =>
              (ret = -1 /\ Selected.sock = "closed" /\ ~call.nomem
               /\ Selected.errmsg = "Unexpected data returned")
        /\ ~Sent.ok =>
              /\ ret = -1
              /\ call.nomem => (Sent.bodylen # 0 /\ Selected.sock = "closed")
              /\ ~call.nomem => (Selected.sock = "open" /\ Stream.bytes = <<>>)

\* The second store was refused with a body of two bytes, which was read
\* off the stream; the server is still connected.
C17_Witness ==
    /\ BinaryStoreDone
    /\ call.count = 2
    /\ call.reply = B_NOT_STORED
    /\ ~call.nomem
    /\ ret = -1
    /\ Selected.sock = "open"
    /\ Stream.bytes = <<>>

\* C18: once every byte of a binary response that carries a value behind
\* four bytes of flags was received and no allocation failed, the fetch has
\* returned 0, the data of the Item begin with the payload, and no byte was
\* stored outside the buffer of the Item.
C18_HitWithExtras ==
    (/\ call.op = "get"
     /\ protocol = "Binary"
     /\ Clean({"hit"})
     /\ call.reply.extlen = 4
     /\ ~call.nomem
     /\ Stream.bytes = <<>>) =>
        /\ pc = "idle"
        /\ ret = 0
        /\ ~call.wild
        /\ Len(item.data) >= Len(Payload)
        /\ SubSeq(item.data, 1, Len(Payload)) = Payload

\* C19: byte i of swap64(x) is byte 7 - i of x and swap64(swap64(x)) = x, for
\* every token x; the token a fetch stored in the Item goes out in a later
\* store as the bytes it came in as.
C19_SwapIsReversal ==
    /\ (pc \in {"fetched", "sent"}) =>
          /\ \A i \in 0..7 : item.cas_id[i + 1] = frame.response[(7 - i) + 1]
          /\ swap64(swap64(frame.response)) = frame.response
          /\ swap64(swap64(item.cas_id)) = item.cas_id
    /\ (pc = "sent") => (frame.request = frame.response)

\* A token with the top bit set and a zero byte went through a fetch and a
\* store.
C19_Witness ==
    /\ pc = "sent"
    /\ frame.response = <<"x01", "x00", "x00", "x00", "x00", "x00", "x01", "xff">>
    /\ item.cas_id = <<"xff", "x01", "x00", "x00", "x00", "x00", "x00", "x01">>

\* C20: a call that waits for response bytes on a stream the peer has closed
\* returns.
C20_ReturnsOnClose ==
    (pc \notin {"idle", "aborted"} /\ net[frame.srv].eof) ~> (pc = "idle")

\* C21: when a textual fetch has returned 0 with bytes copied into the
\* Item, the call was answered with a value, the bytes copied are the bytes
\* of that value as far as the value reaches, and a buffer that was not
\* handed in holds no more bytes than the value has.
C21_OwnResponse ==
    (Returned("get") /\ protocol = "Textual" /\ ret = 0 /\ Len(item.data) > 0) =>
        /\ call.reply.kind = "hit"
        /\ Len(item.data) <= Max({Len(Payload), call.item0.size})
        /\ \A i \in 1..Min({Len(item.data), Len(Payload)}) : item.data[i] = Payload[i]

\* C22: every recv of a textual fetch or store is asked to store its bytes
\* inside the scratch buffer: the offset it stores at plus the length it
\* asks for is at most the size of the buffer.
C22_InsideBuffer ==
    /\ (pc \in {"tget_line", "tstore_recv"}) =>
          (frame.offset + (BufferSize - frame.offset) <= BufferSize /\ frame.offset <= BufferSize)
    /\ (pc = "tget_rest") =>
          (frame.base + frame.offset + (frame.size - frame.offset) <= BufferSize)

====
